---- MODULE Spec2Model ----
(***************************************************************************)
(* The document transformation pipeline of src/utils/markdown.ts (and of   *)
(* its older variant, src/unnamed/part_000): the hast tree passes, the      *)
(* plugin lists of toHtml / toMdx, and the asynchronous embed pass.         *)
(*                                                                         *)
(* A tree node is a record, as in the source: a text node has the fields    *)
(* type and value; an element has type, tagName, children and (usually)     *)
(* properties; the root has type and children. A string the code takes      *)
(* apart character by character (an image title) is a sequence of           *)
(* one-character strings; every other string is a TLA+ string.              *)
(***************************************************************************)
EXTENDS Integers, Sequences, FiniteSets, TLC

VARIABLES
  doc,      \* the tree as it was parsed from the source
  tree,     \* the tree the next pass receives (unified's current tree)
  before,   \* the tree the last pass received
  hist,     \* the names of the passes run so far, in order
  status,   \* "ok", "done" or "failed" (a pass threw / the promise rejected)
  opts,     \* toHtml's options and the variant of the pipeline
  emb,      \* the state of a running replaceFreeLinkWithOEmbed pass
  result    \* what toHtml returned

vars == <<doc, tree, before, hist, status, opts, emb, result>>

----------------------------------------------------------------------------
(* Bounds of the model *)

MaxHeadingNodes == 3   \* nodes below the root in a heading tree
MaxParaNodes == 4      \* nodes below the root in a paragraph tree
MaxMdxNodes == 3       \* nodes below the root in a tree with component paragraphs
MaxLinkNodes == 4      \* nodes below the root in a link tree
MaxTitleLen == 5       \* characters of an image title
MaxRuns == 2           \* times one pass is applied in a row
MaxBlocks == 3         \* root children of a document with bare links
MaxDocNodes == 4       \* block quotes and paragraphs of a parsed HTML document

----------------------------------------------------------------------------
(* Nodes *)

NoProps == [k \in {} |-> ""]

Text(v) == [type |-> "text", value |-> v]

Element(tag, props, kids) ==
  [type |-> "element", tagName |-> tag, properties |-> props, children |-> kids]

\* an element literal the code writes without a properties field
Bare(tag, kids) == [type |-> "element", tagName |-> tag, children |-> kids]

MdxElement(name, kids) == [type |-> "mdxJsxTextElement", name |-> name, children |-> kids]

Root(kids) == [type |-> "root", children |-> kids]

Undefined == [type |-> "undefined"]

\* { ...r, [k]: v }
With(r, k, v) == [f \in DOMAIN r \cup {k} |-> IF f = k THEN v ELSE r[f]]

\* { ...a, ...b }
Spread(a, b) == [f \in DOMAIN a \cup DOMAIN b |-> IF f \in DOMAIN b THEN b[f] ELSE a[f]]

\* node.properties, which may be absent (the ?. and spread of undefined)
PropsOf(node) == IF "properties" \in DOMAIN node THEN node.properties ELSE NoProps

isElement(node) == node.type = "element"

isPreNode(node) == node.type = "element" /\ node.tagName = "pre"

isCodeNode(node) == node.type = "element" /\ node.tagName = "code"

isAnchorNode(node) == node.type = "element" /\ node.tagName = "a"

isPNode(node) == node.type = "element" /\ node.tagName = "p"

isImgNode(node) == node.type = "element" /\ node.tagName = "img"

isMdxPNode(node) == node.type = "mdxJsxTextElement" /\ node.name = "p"

isPathNode(node) == node.type = "element" /\ node.tagName = "path"

isTextNode(node) == node.type = "text"

isParentNode(node) == "children" \in DOMAIN node

----------------------------------------------------------------------------
(* Generic helpers over sequences and trees *)

Map(Op(_), s) == [i \in DOMAIN s |-> Op(s[i])]

RECURSIVE Flatten(_)
Flatten(ss) == IF ss = <<>> THEN <<>> ELSE Head(ss) \o Flatten(Tail(ss))

\* the positions of a tree, in pre-order: a position is the sequence of child
\* indexes leading from the top node to the node
RECURSIVE Paths(_)
Paths(node) ==
  <<(<<>>)>> \o
  (IF isParentNode(node)
     THEN Flatten([i \in DOMAIN node.children |->
                     Map(LAMBDA q : <<i>> \o q, Paths(node.children[i]))])
     ELSE <<>>)

RECURSIVE At(_, _)
At(node, path) == IF path = <<>> THEN node ELSE At(node.children[Head(path)], Tail(path))

\* a node without its subtree: what the node itself carries
Shallow(node) ==
  IF isParentNode(node) THEN With(node, "children", Len(node.children)) ELSE node

Range(s) == {s[i] : i \in DOMAIN s}

IsPrefix(p, q) == Len(p) <= Len(q) /\ SubSeq(q, 1, Len(p)) = p

\* the nodes of a tree, in pre-order
Nodes(node) == Map(LAMBDA q : At(node, q), Paths(node))

\* the position of the first paragraph element in pre-order, or <<-1>>
NoPath == <<-1>>

FirstWhere(Pred(_), node) ==
  LET ps == Paths(node)
      hits == {i \in DOMAIN ps : Pred(At(node, ps[i]))}
  IN IF hits = {} THEN NoPath
     ELSE ps[CHOOSE i \in hits : \A j \in hits : i <= j]

FirstParaPath(node) == FirstWhere(isPNode, node)

----------------------------------------------------------------------------
(* Input trees *)

\* the trees with exactly n nodes whose elements are the shells E (elements
\* with no children yet) and whose leaves are L, and the forests of them
RECURSIVE TreeN(_, _, _), ForestN(_, _, _)
TreeN(E, L, n) ==
  IF n = 1 THEN L \cup {With(e, "children", <<>>) : e \in E}
  ELSE {With(e, "children", f) : e \in E, f \in ForestN(E, L, n - 1)}

ForestN(E, L, n) ==
  IF n = 0 THEN {<<>>}
  ELSE UNION {{<<t>> \o f : t \in TreeN(E, L, m), f \in ForestN(E, L, n - m)} : m \in 1..n}

ForestUpTo(E, L, n) == UNION {ForestN(E, L, k) : k \in 0..n}

Shell(tag) == Element(tag, NoProps, <<>>)

\* the sequences of length n over S
RECURSIVE SeqsN(_, _)
SeqsN(S, n) == IF n = 0 THEN {<<>>} ELSE {<<c>> \o s : c \in S, s \in SeqsN(S, n - 1)}

\* the text nodes "t" numbered in pre-order, so that every such text of a tree
\* is distinct
TextName(k) == "t" \o ToString(k)

RECURSIVE Number(_, _), NumberAll(_, _)
Number(node, k) ==
  IF isTextNode(node) /\ node.value = "t"
    THEN [node |-> Text(TextName(k)), next |-> k + 1]
  ELSE IF isParentNode(node)
    THEN LET r == NumberAll(node.children, k)
         IN [node |-> With(node, "children", r.nodes), next |-> r.next]
    ELSE [node |-> node, next |-> k]

NumberAll(kids, k) ==
  IF kids = <<>> THEN [nodes |-> <<>>, next |-> k]
  ELSE LET h == Number(Head(kids), k)
           t == NumberAll(Tail(kids), h.next)
       IN [nodes |-> <<h.node>> \o t.nodes, next |-> t.next]

HeadingTags == {"h1", "h2", "h3", "h4", "h5", "h6", "hr"}

HeadingTrees ==
  {Root(f) : f \in ForestUpTo({Shell(t) : t \in HeadingTags}, {}, MaxHeadingNodes)}

ParaTrees ==
  {Number(Root(f), 1).node :
     f \in ForestUpTo({Shell("p"), Shell("blockquote")}, {Text("t")}, MaxParaNodes)}

\* trees of the interactive pipeline, where a paragraph may be a component
MdxTrees ==
  {Number(Root(f), 1).node :
     f \in ForestUpTo({Shell("p"), MdxElement("p", <<>>)}, {Text("t")}, MaxMdxNodes)}

LinkTrees ==
  {Number(Root(f), 1).node :
     f \in ForestUpTo({Shell("p"), Element("a", [href |-> "u1"], <<>>)},
                      {Text("t")}, MaxLinkNodes)}


\* a paragraph holding nothing but a link whose text is its address
BareLink(url) == Element("p", NoProps, <<Element("a", [href |-> url], <<Text(url)>>)>>)

\* the root children of a document with bare links and their near misses
Blocks ==
  { BareLink("u1"),
    BareLink("u2"),
    Element("p", NoProps, <<Text("t")>>),
    Element("p", NoProps, <<Element("a", [href |-> "u1"], <<Text("t")>>)>>),
    Element("p", NoProps, <<Element("a", [href |-> "u1"], <<Text("u1"), Text("t")>>)>>),
    Element("p", NoProps, <<Element("a", [href |-> "u1"], <<Text("u1")>>), Text("t")>>),
    Element("p", NoProps, <<Element("a", NoProps, <<Text("")>>)>>),
    Element("blockquote", NoProps, <<BareLink("u1")>>) }

LinkDocs ==
  {Number(Root(f), 1).node : f \in UNION {SeqsN(Blocks, n) : n \in 0..MaxBlocks}}

\* the tree of excerpt mode: the first paragraph alone
ExcerptTrees == {BareLink("u1"), Element("p", NoProps, <<Text("t1")>>)}

\* the documents the HTML parser can give: paragraphs hold text and links,
\* block quotes hold paragraphs and block quotes
HtmlDocs ==
  {Number(Root(f), 1).node :
     f \in ForestUpTo({Shell("blockquote")},
                      {Element("p", NoProps, <<Text("t")>>), BareLink("u1")},
                      MaxDocNodes)}

\* an image title is a sequence of characters over this alphabet
TitleChars == {"#", "a", "=", ";", " "}

Titles == UNION {SeqsN(TitleChars, n) : n \in 0..MaxTitleLen}

ImageTrees ==
  {Root(<<Element("p", NoProps,
                  <<Element("img", [src |-> "s", a |-> "old", title |-> t], <<>>),
                    Text("t1")>>)>>) : t \in Titles}

----------------------------------------------------------------------------
(* unified: what the runner does with a transformer's return value *)

Thrown(e) == [type |-> "error", error |-> e]

isThrown(out) == out.type = "error"

\* a transformer that returns undefined leaves the tree as it is; one that
\* returns a node makes that node the tree
NextTree(t, out) == IF out = Undefined THEN t ELSE out

----------------------------------------------------------------------------
(* wrapLinksInSpans *)

RECURSIVE wrapPreorder(_)
wrapPreorder(node) ==
  IF isAnchorNode(node)
    THEN Element("span", [class |-> "inner-link"], <<node>>)
  ELSE IF isParentNode(node)
    THEN With(node, "children", Map(wrapPreorder, node.children))
  ELSE node

wrapLinksInSpans(t) == wrapPreorder(t)

----------------------------------------------------------------------------
(* addLeadToFirstParagraph *)

RECURSIVE leadRun(_), leadReduce(_, _), leadReduceEvery(_, _)
\* a reduce that does not look at found: it goes on into the later siblings
leadReduceEvery(kids, acc) ==
  IF kids = <<>> THEN acc
  ELSE LET r == leadRun(Head(kids))
       IN leadReduceEvery(Tail(kids),
                          [found |-> acc.found \/ r.found,
                           children |-> Append(acc.children, r.node)])

\* the reduce over node.children, acc = {found, children}
leadReduce(kids, acc) ==
  IF kids = <<>> THEN acc
  ELSE IF acc.found
    THEN leadReduce(Tail(kids),
                    [found |-> acc.found, children |-> Append(acc.children, Head(kids))])
    ELSE LET r == leadRun(Head(kids))
         IN leadReduce(Tail(kids),
                       [found |-> r.found, children |-> Append(acc.children, r.node)])

leadRun(node) ==
  IF isPNode(node)
    THEN [found |-> TRUE,
          node |-> With(node, "properties", Spread(PropsOf(node), [class |-> "lead"]))]
  ELSE IF isParentNode(node)
    THEN LET c == leadReduce(node.children, [found |-> FALSE, children |-> <<>>])
         IN [found |-> c.found, node |-> With(node, "children", c.children)]
  ELSE [found |-> FALSE, node |-> node]

addLeadToFirstParagraph(t) == leadRun(t).node

----------------------------------------------------------------------------
(* getOnlyFirstPara *)

\* Array.prototype.find
Find(Pred(_), s) ==
  LET hits == {i \in DOMAIN s : Pred(s[i])}
  IN IF hits = {} THEN Undefined ELSE s[CHOOSE i \in hits : \A j \in hits : i <= j]

getOnlyFirstPara(t) ==
  IF isPNode(t) THEN t
  ELSE IF isParentNode(t) THEN Find(isPNode, t.children)
  ELSE Undefined

----------------------------------------------------------------------------
(* collapseParagraphs *)

RECURSIVE collapseRun(_)
collapseRun(node) ==
  IF isPNode(node)
    THEN IF Len(node.children) = 1
            /\ (isPNode(node.children[1]) \/ isMdxPNode(node.children[1]))
           THEN node.children[1]
           ELSE node
  ELSE IF isParentNode(node)
    THEN With(node, "children", Map(collapseRun, node.children))
  ELSE node

collapseParagraphs(t) == collapseRun(t)

----------------------------------------------------------------------------
(* normalizeHeaders *)

desiredHeading == 2

Infinity == 1000

HTag(level) == "h" \o ToString(level)

Digits == 0..9

\* tagName.length === 2 && tagName.toLowerCase().startsWith('h'), for the
\* lower-case tag names of the model
isHeadingLike(tagName) ==
  Len(tagName) = 2 /\ tagName \in {HTag(d) : d \in Digits} \cup {"hr"}

\* parseInt(tagName.substr(1), 10) of a two-character tag name
parseLevel(tagName) ==
  IF \E d \in Digits : tagName = HTag(d)
    THEN [isNaN |-> FALSE, value |-> CHOOSE d \in Digits : tagName = HTag(d)]
    ELSE [isNaN |-> TRUE, value |-> 0]

\* a comparison with NaN is false
LessThan(level, n) == ~level.isNaN /\ level.value < n

\* the first visit: the numerically lowest level among the heading-like elements
RECURSIVE scanHeadings(_, _)
scanHeadings(nodes, most) ==
  IF nodes = <<>> THEN most
  ELSE LET node == Head(nodes)
           level == parseLevel(node.tagName)
       IN scanHeadings(Tail(nodes),
            IF isElement(node) /\ isHeadingLike(node.tagName) /\ LessThan(level, most)
              THEN level.value ELSE most)

mostImportantHeading(t) == scanHeadings(Nodes(t), Infinity)

\* a shift that takes the top heading of every document to be h1
newLevelFromOne(most, level) == desiredHeading - 1 + level

newLevel(most, level) == desiredHeading - most + level

\* the second visit
RECURSIVE shiftHeadings(_, _)
shiftHeadings(node, most) ==
  LET kids == IF isParentNode(node)
                THEN With(node, "children",
                          Map(LAMBDA c : shiftHeadings(c, most), node.children))
                ELSE node
  IN IF isElement(node) /\ isHeadingLike(node.tagName) /\ ~parseLevel(node.tagName).isNaN
       THEN With(kids, "tagName", HTag(newLevel(most, parseLevel(node.tagName).value)))
       ELSE kids

normalizeHeaders(t) ==
  IF mostImportantHeading(t) = Infinity THEN t
  ELSE shiftHeadings(t, mostImportantHeading(t))

----------------------------------------------------------------------------
(* imageAttributes *)

\* String.prototype.split with a one-character separator
RECURSIVE Split(_, _)
Split(s, sep) ==
  LET hits == {i \in DOMAIN s : s[i] = sep}
  IN IF hits = {} THEN <<s>>
     ELSE LET i == CHOOSE i \in hits : \A j \in hits : i <= j
          IN <<SubSeq(s, 1, i - 1)>> \o Split(SubSeq(s, i + 1, Len(s)), sep)

RECURSIVE TrimStart(_)
TrimStart(s) == IF s # <<>> /\ Head(s) = " " THEN TrimStart(Tail(s)) ELSE s

RECURSIVE TrimEnd(_)
TrimEnd(s) ==
  IF s # <<>> /\ s[Len(s)] = " " THEN TrimEnd(SubSeq(s, 1, Len(s) - 1)) ELSE s

Trim(s) == TrimEnd(TrimStart(s))

\* the characters joined into one string
RECURSIVE Str(_)
Str(s) == IF s = <<>> THEN "" ELSE Head(s) \o Str(Tail(s))

isDirective(props) ==
  "title" \in DOMAIN props /\ props.title # <<>> /\ Head(props.title) = "#"

\* title.slice(1).split(';').map((p) => p.split('='))
directiveParts(title) == Map(LAMBDA p : Split(p, "="), Split(Tail(title), ";"))

\* .map(([key, val]) => [key.trim(), val.trim()]) calls trim on undefined when
\* a part has no second element
trimThrows(parts) == \E i \in DOMAIN parts : Len(parts[i]) < 2

\* the trimmed pairs, .filter(([key]) => key)
RECURSIVE directiveEntries(_)
directiveEntries(parts) ==
  IF parts = <<>> THEN <<>>
  ELSE LET key == Trim(Head(parts)[1])
           val == Trim(Head(parts)[2])
       IN (IF key # <<>> THEN <<[key |-> Str(key), val |-> Str(val)]>> ELSE <<>>)
          \o directiveEntries(Tail(parts))

\* Object.fromEntries: a later entry of the same key wins
fromEntries(entries) ==
  [k \in {entries[i].key : i \in DOMAIN entries} |->
     entries[CHOOSE i \in DOMAIN entries :
               entries[i].key = k /\ \A j \in DOMAIN entries : entries[j].key = k => j <= i].val]

imageThrows(node) ==
  isImgNode(node) /\ isDirective(PropsOf(node)) /\ trimThrows(directiveParts(node.properties.title))

RECURSIVE imageVisit(_)
imageVisit(node) ==
  LET kids == IF isParentNode(node)
                THEN With(node, "children", Map(imageVisit, node.children))
                ELSE node
  IN IF isImgNode(node) /\ isDirective(PropsOf(node))
       THEN With(kids, "properties",
                 Spread(node.properties,
                        fromEntries(directiveEntries(directiveParts(node.properties.title)))))
       ELSE kids

\* the tree after the pass, or the TypeError that ends it
imageAttributes(t) ==
  IF \E i \in DOMAIN Nodes(t) : imageThrows(Nodes(t)[i])
    THEN Thrown("TypeError")
    ELSE imageVisit(t)

----------------------------------------------------------------------------
(* addDataToCodeBlocks: a class name is a sequence of characters *)

languagePrefix == <<"l", "a", "n", "g", "u", "a", "g", "e", "-">>

startsWith(s, prefix) == Len(s) >= Len(prefix) /\ SubSeq(s, 1, Len(prefix)) = prefix

slice(s, n) == SubSeq(s, n + 1, Len(s))

UpperOf == [a |-> "A", b |-> "B", c |-> "C", j |-> "J", s |-> "S", t |-> "T"]

toUpperCase(s) == [i \in DOMAIN s |-> IF s[i] \in DOMAIN UpperOf THEN UpperOf[s[i]] ELSE s[i]]

classNameOf(node) ==
  IF "className" \in DOMAIN PropsOf(node) THEN PropsOf(node).className ELSE <<>>

\* className?.find((c) => c.startsWith(prefix))?.slice(prefix.length), <<>> when none
langOf(node) ==
  LET hits == {i \in DOMAIN classNameOf(node) : startsWith(classNameOf(node)[i], languagePrefix)}
  IN IF hits = {} THEN <<>>
     ELSE slice(classNameOf(node)[CHOOSE i \in hits : \A j \in hits : i <= j],
                Len(languagePrefix))

RECURSIVE codeVisit(_)
codeVisit(node) ==
  LET kids == IF isParentNode(node)
                THEN With(node, "children", Map(codeVisit, node.children))
                ELSE node
  IN IF (isPreNode(node) \/ isCodeNode(node)) /\ langOf(node) # <<>>
       THEN With(kids, "properties",
                 Spread(Spread(PropsOf(node), [data_lang |-> Str(langOf(node))]),
                        IF isPreNode(node)
                          THEN [aria_label |-> "Kod w jezyku programowania "
                                               \o Str(toUpperCase(langOf(node)))]
                          ELSE NoProps))
       ELSE kids

addDataToCodeBlocks(t) == codeVisit(t)

----------------------------------------------------------------------------
(* replaceFreeLinkWithOEmbed: the synchronous parts *)

\* the guards before the lookup: a paragraph whose only child is an anchor
\* with a non-empty href that the value of the anchor's first child equals
hrefOf(anchorNode) ==
  IF "href" \in DOMAIN PropsOf(anchorNode) THEN PropsOf(anchorNode).href ELSE ""

firstChildValue(anchorNode) ==
  IF isParentNode(anchorNode) /\ anchorNode.children # <<>>
     /\ "value" \in DOMAIN anchorNode.children[1]
    THEN anchorNode.children[1].value
    ELSE ""

needsLookup(node) ==
  /\ isPNode(node)
  /\ Len(node.children) = 1
  /\ isAnchorNode(node.children[1])
  /\ hrefOf(node.children[1]) # ""
  /\ firstChildValue(node.children[1]) = hrefOf(node.children[1])

\* a call that returned a value, and one that threw
Returned(v) == [threw |-> FALSE, value |-> v]

Threw(e) == [threw |-> TRUE, error |-> e]

\* ./fns tryCatch: the value the call returned, or the error it threw, as a value
tryCatch(call) == IF call.threw THEN Thrown(call.error) ELSE call.value

\* what getOEmbed can answer: null, or metadata. parse is the call of
\* RehypeParse on the html: it returns a root, or throws
Null == [type |-> "null"]

Meta(type, title, html, parse) ==
  [type |-> type, title |-> title, html |-> html, parse |-> parse,
   thumbnail_url |-> "thumb", thumbnail_width |-> "100", thumbnail_height |-> "50"]

Document(body) ==
  Root(<<Element("html", NoProps,
                 <<Element("head", NoProps, <<>>), Element("body", NoProps, body)>>)>>)

Responses ==
  { Null,
    Meta("photo", "T", "", Returned(Document(<<>>))),
    Meta("link", "", "", Returned(Document(<<>>))),
    Meta("video", "T", "V",
         Returned(Document(<<Element("iframe", [width |-> "16", height |-> "9"], <<>>)>>))),
    Meta("video", "T", "V", Threw("parse")),
    Meta("rich", "T", "R",
         Returned(Document(<<Element("blockquote", NoProps, <<Text("quote")>>)>>))),
    Meta("rich", "T", "", Returned(Document(<<>>))) }

RECURSIVE findBody(_)
findBody(c) ==
  IF isElement(c) /\ c.tagName = "body" THEN c.children
  ELSE IF isParentNode(c) THEN Flatten(Map(findBody, c.children))
  ELSE <<>>

\* Number(width) / Number(height) || 1.69, as the pair <<numerator, denominator>>
defaultAspect == <<"169", "100">>

aspectOf(n) ==
  IF {"width", "height"} \subseteq DOMAIN PropsOf(n) /\ n.properties.width # "0"
    THEN <<n.properties.width, n.properties.height>>
    ELSE defaultAspect

wrapIframe(n) ==
  IF isElement(n) /\ n.tagName = "iframe"
    THEN Element("div", [style |-> <<"aspect-ratio", aspectOf(n)>>], <<n>>)
    ELSE n

\* the card that replaces the paragraph (the Polish letters of the two labels
\* of the source are written without their diacritics here)
embedCard(href, oEmbed) ==
  LET parses == oEmbed.type = "video" \/ oEmbed.type = "rich"
      errorOrRoot == IF parses THEN tryCatch(oEmbed.parse) ELSE Null
      isError == isThrown(errorOrRoot)
      hasRest == ~isError /\ errorOrRoot # Null
      elements == IF hasRest
                    THEN Map(wrapIframe, Flatten(Map(findBody, errorOrRoot.children)))
                    ELSE <<>>
      cover == [type |-> "element", tagName |-> "img",
                properties |-> [src |-> oEmbed.thumbnail_url,
                                width |-> oEmbed.thumbnail_width,
                                height |-> oEmbed.thumbnail_height,
                                title |-> "Otworz " \o oEmbed.title]]
      shouldLinkWholeCard == oEmbed.type = "rich" /\ oEmbed.html # ""
      cite == Bare("cite",
                <<IF shouldLinkWholeCard
                    THEN Text(href)
                    ELSE Element("a", [href |-> href, title |-> oEmbed.title],
                                 <<Text(href)>>)>>)
      titleP == Element("p", [class |-> "title"],
                        IF oEmbed.title # "" THEN <<Text(oEmbed.title)>> ELSE <<>>)
      replacement ==
        Element("figure", [class |-> "oembed"],
          (IF oEmbed.type = "rich" THEN <<cover>> ELSE <<>>)
          \o (IF elements # <<>> /\ oEmbed.type # "rich" THEN elements ELSE <<>>)
          \o <<Bare("figcaption",
                    <<cite, titleP>>
                    \o (IF elements # <<>> /\ oEmbed.type = "rich" THEN elements ELSE <<>>))>>)
  IN IF shouldLinkWholeCard
       THEN Element("a", [href |-> href, title |-> oEmbed.title], <<replacement>>)
       ELSE replacement

\* the card linked as a whole whatever its type
embedNodeLinked(node, answer) ==
  IF ~needsLookup(node) \/ answer = Null THEN node
  ELSE LET card == embedCard(hrefOf(node.children[1]), answer)
       IN IF isAnchorNode(card) THEN card
          ELSE Element("a", [href |-> hrefOf(node.children[1]), title |-> answer.title],
                       <<card>>)

\* what preorder returns for a node that is not the root, once getOEmbed
\* has answered (answer is only looked at when the node needs the lookup)
embedNode(node, answer) ==
  IF ~needsLookup(node) \/ answer = Null THEN node
  ELSE embedCard(hrefOf(node.children[1]), answer)

----------------------------------------------------------------------------
(* The passes one by one: a tree is drawn, and one pass is applied to it, up *)
(* to MaxRuns times in a row. result holds what the transformer returned.    *)

NoOpts == [excerpt |-> FALSE, parseOembed |-> FALSE, variant |-> "none"]

NoEmb == [phase |-> "off"]

Last(s) == s[Len(s)]

Init ==
  /\ \/ tree \in HeadingTrees
     \/ tree \in ParaTrees
     \/ tree \in MdxTrees
     \/ tree \in LinkTrees
     \/ tree \in ImageTrees
  /\ doc = tree
  /\ before = tree
  /\ hist = <<>>
  /\ status = "ok"
  /\ opts = NoOpts
  /\ emb = NoEmb
  /\ result = Undefined

CanRun(name) ==
  /\ status = "ok"
  /\ Len(hist) < MaxRuns
  /\ \A i \in DOMAIN hist : hist[i] = name

\* unified runs the transformer `name`, which returns `out`
RunPass(name, out) ==
  /\ before' = tree
  /\ hist' = Append(hist, name)
  /\ IF isThrown(out)
       THEN status' = "failed" /\ tree' = tree
       ELSE status' = status /\ tree' = NextTree(tree, out)
  /\ UNCHANGED doc

DoNormalizeHeaders ==
  /\ CanRun("normalizeHeaders")
  /\ RunPass("normalizeHeaders", normalizeHeaders(tree))
  /\ result' = normalizeHeaders(tree)
  /\ UNCHANGED <<opts, emb>>

DoCollapseParagraphs ==
  /\ CanRun("collapseParagraphs")
  /\ RunPass("collapseParagraphs", collapseParagraphs(tree))
  /\ result' = collapseParagraphs(tree)
  /\ UNCHANGED <<opts, emb>>

DoWrapLinksInSpans ==
  /\ CanRun("wrapLinksInSpans")
  /\ RunPass("wrapLinksInSpans", wrapLinksInSpans(tree))
  /\ result' = wrapLinksInSpans(tree)
  /\ UNCHANGED <<opts, emb>>

DoAddLeadToFirstParagraph ==
  /\ CanRun("addLeadToFirstParagraph")
  /\ RunPass("addLeadToFirstParagraph", addLeadToFirstParagraph(tree))
  /\ result' = addLeadToFirstParagraph(tree)
  /\ UNCHANGED <<opts, emb>>

DoGetOnlyFirstPara ==
  /\ CanRun("getOnlyFirstPara")
  /\ RunPass("getOnlyFirstPara", getOnlyFirstPara(tree))
  /\ result' = getOnlyFirstPara(tree)
  /\ UNCHANGED <<opts, emb>>

DoImageAttributes ==
  /\ CanRun("imageAttributes")
  /\ RunPass("imageAttributes", imageAttributes(tree))
  /\ result' = imageAttributes(tree)
  /\ UNCHANGED <<opts, emb>>

Next ==
  \/ DoNormalizeHeaders
  \/ DoCollapseParagraphs
  \/ DoWrapLinksInSpans
  \/ DoAddLeadToFirstParagraph
  \/ DoGetOnlyFirstPara
  \/ DoImageAttributes

Spec == Init /\ [][Next]_vars

----------------------------------------------------------------------------
(* Claims about the single passes, checked under Spec *)

ranPass(name) == hist # <<>> /\ Last(hist) = name /\ status = "ok"

ranOnce(name) == hist = <<name>> /\ status = "ok"

\* the level of a heading element h1..h9, read off its tag
HeadingLevels == 1..9

isHeading(node) == isElement(node) /\ \E l \in HeadingLevels : node.tagName = "h" \o ToString(l)

levelOf(node) == CHOOSE l \in HeadingLevels : node.tagName = "h" \o ToString(l)

headingPaths(t) == {q \in Range(Paths(t)) : isHeading(At(t, q))}

minLevel(t) ==
  CHOOSE l \in HeadingLevels :
    /\ \E q \in headingPaths(t) : levelOf(At(t, q)) = l
    /\ \A q \in headingPaths(t) : levelOf(At(t, q)) >= l

headingsInRange(t) == \A q \in headingPaths(t) : levelOf(At(t, q)) \in 1..6

\* C1: normalizeHeaders, on a tree whose headings are all h1..h6 and which has
\* at least one heading, leaves the lowest level present at 2 and gives every
\* heading the level oldLevel + (2 - minLevel), touching nothing else; a tree
\* with no heading comes back unchanged.
C1_NormalizeHeadersShiftsToTwo ==
  (ranPass("normalizeHeaders") /\ headingsInRange(before)) =>
    IF headingPaths(before) = {}
      THEN tree = before
      ELSE /\ Paths(tree) = Paths(before)
           /\ headingPaths(tree) = headingPaths(before)
           /\ minLevel(tree) = 2
           /\ \A q \in Range(Paths(before)) :
                IF q \in headingPaths(before)
                  THEN /\ levelOf(At(tree, q)) = levelOf(At(before, q)) + (2 - minLevel(before))
                       /\ With(Shallow(At(tree, q)), "tagName", "") =
                            With(Shallow(At(before, q)), "tagName", "")
                  ELSE Shallow(At(tree, q)) = Shallow(At(before, q))
           /\ \A q, r \in headingPaths(before) :
                levelOf(At(tree, q)) - levelOf(At(tree, r)) =
                  levelOf(At(before, q)) - levelOf(At(before, r))

\* a tree with headings of different levels, none of them at level 2, and a
\* heading-like hr, has been normalized
C1_Witness ==
  /\ ranOnce("normalizeHeaders")
  /\ headingsInRange(before)
  /\ \E q, r \in headingPaths(before) :
       /\ levelOf(At(before, q)) = 3 /\ levelOf(At(before, r)) = 5
       /\ levelOf(At(tree, q)) = 2 /\ levelOf(At(tree, r)) = 4
  /\ \E q \in Range(Paths(before)) : isElement(At(before, q)) /\ At(before, q).tagName = "hr"

\* C2: collapseParagraphs applied twice gives the tree that applying it once
\* gives.
C2_CollapseIdempotent ==
  (hist = <<"collapseParagraphs", "collapseParagraphs">> /\ status = "ok") => tree = before

isInnerLink(node) ==
  /\ isElement(node) /\ node.tagName = "span"
  /\ "class" \in DOMAIN PropsOf(node) /\ PropsOf(node).class = "inner-link"

parentPath(q) == SubSeq(q, 1, Len(q) - 1)

anchorPaths(t) == {q \in Range(Paths(t)) : isAnchorNode(At(t, q))}

\* C3: after one run of wrapLinksInSpans every anchor of the tree, at any
\* depth, also below another anchor, has as its parent a span of class
\* inner-link whose only child it is, and no inner-link span lies directly in
\* another one.
C3_EveryAnchorWrappedOnce ==
  ranOnce("wrapLinksInSpans") =>
    /\ Cardinality(anchorPaths(tree)) = Cardinality(anchorPaths(before))
    /\ \A q \in anchorPaths(tree) :
         /\ q # <<>>
         /\ isInnerLink(At(tree, parentPath(q)))
         /\ Len(At(tree, parentPath(q)).children) = 1
         /\ ~(Len(q) >= 2 /\ isInnerLink(At(tree, parentPath(parentPath(q)))))

paraPaths(t) == {q \in Range(Paths(t)) : isPNode(At(t, q))}

differingPaths(t, u) == {q \in Range(Paths(t)) : Shallow(At(t, q)) # Shallow(At(u, q))}

hasClass(node, c) == "class" \in DOMAIN PropsOf(node) /\ PropsOf(node).class = c

\* C4: addLeadToFirstParagraph changes one node only, the first paragraph in
\* pre-order, which gets class "lead" and keeps everything else; every other
\* node, the paragraphs inside and after the marked one included, is as in
\* the input; a tree with no paragraph comes back equal.
C4_LeadTouchesOnlyFirstParagraph ==
  ranPass("addLeadToFirstParagraph") =>
    LET fp == FirstParaPath(before)
    IN /\ Paths(tree) = Paths(before)
       /\ fp = NoPath => tree = before
       /\ fp # NoPath =>
            /\ Shallow(At(tree, fp)) =
                 With(Shallow(At(before, fp)), "properties",
                      [k \in DOMAIN PropsOf(At(before, fp)) \cup {"class"} |->
                         IF k = "class" THEN "lead" ELSE PropsOf(At(before, fp))[k]])
            /\ differingPaths(tree, before) =
                 IF hasClass(At(before, fp), "lead") THEN {} ELSE {fp}

\* the first paragraph lies inside another element, holds a paragraph itself
\* and is followed by a paragraph; only it has been marked
C4_Witness ==
  /\ ranOnce("addLeadToFirstParagraph")
  /\ LET fp == FirstParaPath(before)
     IN /\ fp # NoPath /\ Len(fp) >= 2
        /\ hasClass(At(tree, fp), "lead")
        /\ \E q \in paraPaths(tree) : q # fp /\ IsPrefix(fp, q) /\ ~hasClass(At(tree, q), "lead")
        /\ \E q \in paraPaths(tree) : ~IsPrefix(fp, q) /\ ~hasClass(At(tree, q), "lead")

directiveImages(t) ==
  {q \in Range(Paths(t)) : isImgNode(At(t, q)) /\ isDirective(PropsOf(At(t, q)))}

\* C5: imageAttributes never raises on an image whose title starts with "#":
\* a segment that is empty or has no "=" is skipped and the pass completes.
C5_ImageAttributesNeverAborts ==
  (hist # <<>> /\ Last(hist) = "imageAttributes" /\ directiveImages(before) # {}) =>
    status = "ok"

\* C9: getOnlyFirstPara returns the node addLeadToFirstParagraph would mark,
\* the first paragraph in pre-order, nested or not, and nothing when the tree
\* has no paragraph.
C9_FirstParaIsFirstInPreorder ==
  ranOnce("getOnlyFirstPara") =>
    result = IF FirstParaPath(before) = NoPath THEN Undefined
             ELSE At(before, FirstParaPath(before))

----------------------------------------------------------------------------
(* replaceFreeLinkWithOEmbed as it runs: Bluebird.mapSeries over the root's *)
(* children, each call of preorder suspended at its await of getOEmbed.     *)
(* emb.st[i] is where the call for child i stands, emb.out[i] what it        *)
(* returned, emb.log the requests and answers in the order they happened.    *)

\* the nodes preorder is called on below the top node: the root's children,
\* or, when the tree is no root, nothing (the top node is handled itself)
embedItems(t) == IF isParentNode(t) /\ t.type = "root" THEN t.children ELSE <<t>>

\* Bluebird.map: the mapper is called on every item at once
mapMayStart(st, i) == TRUE

\* Bluebird.mapSeries calls the mapper on item i once the promises of all
\* earlier items are fulfilled
mapSeriesMayStart(st, i) == \A j \in 1..(i - 1) : st[j] = "resolved"

embedStart(t) ==
  [phase |-> "running",
   items |-> embedItems(t),
   st |-> [i \in DOMAIN embedItems(t) |-> "pending"],
   out |-> [i \in DOMAIN embedItems(t) |-> Undefined],
   log |-> <<>>]

InitEmbed ==
  /\ \/ tree \in LinkDocs
     \/ tree \in ExcerptTrees
  /\ doc = tree
  /\ before = tree
  /\ hist = <<"replaceFreeLinkWithOEmbed">>
  /\ status = "ok"
  /\ opts = NoOpts
  /\ emb = embedStart(tree)
  /\ result = Undefined

\* preorder(child) returns at once: the child is not a bare link
EmbedPassThrough(i) ==
  /\ emb.phase = "running"
  /\ emb.st[i] = "pending"
  /\ mapSeriesMayStart(emb.st, i)
  /\ ~needsLookup(emb.items[i])
  /\ emb' = [emb EXCEPT !.st[i] = "resolved", !.out[i] = embedNode(emb.items[i], Null)]
  /\ UNCHANGED <<doc, tree, before, hist, status, opts, result>>

\* preorder(child) calls getOEmbed and waits
EmbedRequest(i) ==
  /\ emb.phase = "running"
  /\ emb.st[i] = "pending"
  /\ mapSeriesMayStart(emb.st, i)
  /\ needsLookup(emb.items[i])
  /\ emb' = [emb EXCEPT !.st[i] = "awaiting",
                        !.log = Append(@, [ev |-> "request", i |-> i,
                                           url |-> hrefOf(emb.items[i].children[1]),
                                           answer |-> Null])]
  /\ UNCHANGED <<doc, tree, before, hist, status, opts, result>>

\* getOEmbed answers, and preorder(child) runs to its return
EmbedAnswer(i, answer) ==
  /\ emb.phase = "running"
  /\ emb.st[i] = "awaiting"
  /\ emb' = [emb EXCEPT !.st[i] = "resolved",
                        !.out[i] = embedNode(emb.items[i], answer),
                        !.log = Append(@, [ev |-> "answer", i |-> i,
                                           url |-> hrefOf(emb.items[i].children[1]),
                                           answer |-> answer])]
  /\ UNCHANGED <<doc, tree, before, hist, status, opts, result>>

\* getOEmbed rejects: the await throws, nothing catches it, and the promise
\* of the pass rejects
EmbedReject(i) ==
  /\ emb.phase = "running"
  /\ emb.st[i] = "awaiting"
  /\ emb' = [emb EXCEPT !.phase = "rejected",
                        !.log = Append(@, [ev |-> "reject", i |-> i,
                                           url |-> hrefOf(emb.items[i].children[1]),
                                           answer |-> Null])]
  /\ status' = "failed"
  /\ UNCHANGED <<doc, tree, before, hist, opts, result>>

\* every call has returned: node.children = the results (or, for a tree that
\* is no root, the one result is the tree)
EmbedFinish ==
  /\ emb.phase = "running"
  /\ \A i \in DOMAIN emb.st : emb.st[i] = "resolved"
  /\ emb' = [emb EXCEPT !.phase = "done"]
  /\ tree' = IF isParentNode(tree) /\ tree.type = "root"
               THEN With(tree, "children", emb.out)
               ELSE emb.out[1]
  /\ status' = "done"
  /\ UNCHANGED <<doc, before, hist, opts, result>>

NextEmbed ==
  \/ \E i \in DOMAIN emb.st : EmbedPassThrough(i)
  \/ \E i \in DOMAIN emb.st : EmbedRequest(i)
  \/ \E i \in DOMAIN emb.st : \E answer \in Responses : EmbedAnswer(i, answer)
  \/ \E i \in DOMAIN emb.st : EmbedReject(i)
  \/ EmbedFinish

SpecEmbed == InitEmbed /\ [][NextEmbed]_vars

----------------------------------------------------------------------------
(* Claims about the embed pass, checked under SpecEmbed *)

\* C6: replaceFreeLinkWithOEmbed never aborts: when a lookup fails the pass
\* still completes, the other children are still processed and the paragraph
\* whose lookup failed stays as it was.
C6_EmbedPassNeverAborts ==
  /\ status # "failed"
  /\ emb.phase = "done" =>
       \A k \in DOMAIN emb.log :
         emb.log[k].ev = "reject" => tree.children[emb.log[k].i] = before.children[emb.log[k].i]

awaiting == {i \in DOMAIN emb.st : emb.st[i] = "awaiting"}

requestsOf(log) == {k \in DOMAIN log : log[k].ev = "request"}

\* the address a card cites: the text of its cite element
citedUrl(card) ==
  LET figure == IF isAnchorNode(card) THEN card.children[1] ELSE card
      caption == Last(figure.children)
      c == caption.children[1].children[1]
  IN IF isTextNode(c) THEN c.value ELSE c.children[1].value

isCard(node) ==
  \/ isElement(node) /\ node.tagName = "figure" /\ hasClass(node, "oembed")
  \/ /\ isAnchorNode(node) /\ node.children # <<>>
     /\ isElement(node.children[1]) /\ node.children[1].tagName = "figure"

\* C7: in one run of the pass the requests go out in the document order of the
\* root's children, at most one is outstanding at any time, a request starts
\* only after the one before it was answered, and the resulting children stay
\* at their positions.
C7_RequestsSequentialInOrder ==
  /\ Cardinality(awaiting) <= 1
  /\ \A k \in requestsOf(emb.log) :
       /\ needsLookup(before.children[emb.log[k].i])
          \/ (before.type # "root" /\ needsLookup(before))
       /\ k > 1 =>
            /\ emb.log[k - 1].ev = "answer"
            /\ emb.log[k - 1].i < emb.log[k].i
            /\ \E j \in requestsOf(emb.log) : j < k /\ emb.log[j].i = emb.log[k - 1].i
       /\ \A j \in 1..(emb.log[k].i - 1) :
            needsLookup(emb.items[j]) => \E m \in requestsOf(emb.log) : m < k /\ emb.log[m].i = j
  /\ (emb.phase = "done" /\ before.type = "root") =>
       /\ Len(tree.children) = Len(before.children)
       /\ \A i \in DOMAIN before.children :
            \/ tree.children[i] = before.children[i]
            \/ /\ needsLookup(before.children[i])
               /\ isCard(tree.children[i])
               /\ citedUrl(tree.children[i]) = hrefOf(before.children[i].children[1])

\* three bare links were looked up one after the other, the second and third
\* became cards of their own addresses, between two paragraphs left alone
C7_Witness ==
  /\ emb.phase = "done"
  /\ before.type = "root"
  /\ Cardinality(requestsOf(emb.log)) >= 2
  /\ \E i, j \in DOMAIN tree.children :
       /\ i < j
       /\ isCard(tree.children[i]) /\ citedUrl(tree.children[i]) = "u2"
       /\ isCard(tree.children[j]) /\ citedUrl(tree.children[j]) = "u1"
  /\ \E i \in DOMAIN tree.children :
       tree.children[i] = before.children[i] /\ ~needsLookup(before.children[i])

\* the answers getOEmbed gave in this run, as log entries
answersOf(log) == {k \in DOMAIN log : log[k].ev = "answer"}

isFigure(node) == isElement(node) /\ node.tagName = "figure"

\* figcaption > [cite > a[href] > href, p.title > T, ...]
captionCites(caption, href, title) ==
  /\ isElement(caption) /\ caption.tagName = "figcaption"
  /\ Len(caption.children) >= 2
  /\ LET cite == caption.children[1]
         p == caption.children[2]
     IN /\ isElement(cite) /\ cite.tagName = "cite"
        /\ Len(cite.children) = 1
        /\ isAnchorNode(cite.children[1])
        /\ hrefOf(cite.children[1]) = href
        /\ isPNode(p) /\ hasClass(p, "title")
        /\ p.children = <<Text(title)>>

\* C13: a bare-link paragraph whose lookup returned metadata of a type other
\* than rich, with title T, is replaced by a figure of class oembed that is
\* not wrapped in an anchor, has no cover image, and whose figcaption holds a
\* cite with an anchor to the href, then a title paragraph with text T; when
\* the lookup returned null the paragraph stays as it was.
C13_EmbedCardShape ==
  \A k \in answersOf(emb.log) :
    LET i == emb.log[k].i
        answer == emb.log[k].answer
        node == emb.items[i]
        out == emb.out[i]
    IN /\ answer = Null => out = node
       /\ (answer # Null /\ answer.type # "rich" /\ answer.title # "") =>
            /\ isFigure(out)
            /\ hasClass(out, "oembed")
            /\ \A c \in DOMAIN out.children : ~isImgNode(out.children[c])
            /\ captionCites(Last(out.children), hrefOf(node.children[1]), answer.title)

\* the pass finished a document in which one bare link got a photo's
\* metadata and became a bare figure, and another got null and stayed
C13_Witness ==
  /\ emb.phase = "done"
  /\ before.type = "root"
  /\ \E k \in answersOf(emb.log) :
       /\ emb.log[k].answer # Null
       /\ emb.log[k].answer.type = "photo"
       /\ isFigure(tree.children[emb.log[k].i])
       /\ needsLookup(before.children[emb.log[k].i])
  /\ \E k \in answersOf(emb.log) :
       /\ emb.log[k].answer = Null
       /\ tree.children[emb.log[k].i] = before.children[emb.log[k].i]

\* the visible text of a node: the text of its descendants, in order
RECURSIVE visibleText(_)
visibleText(node) ==
  IF isTextNode(node) THEN node.value
  ELSE IF isParentNode(node) /\ node.children # <<>>
    THEN visibleText(node.children[1])
         \o visibleText(With(node, "children", Tail(node.children)))
  ELSE ""

\* a paragraph with exactly one child, an anchor with a non-empty href whose
\* entire visible text is the href
isBareUrlParagraph(node) ==
  /\ isPNode(node)
  /\ Len(node.children) = 1
  /\ isAnchorNode(node.children[1])
  /\ hrefOf(node.children[1]) # ""
  /\ visibleText(node.children[1]) = hrefOf(node.children[1])

\* C14: replaceFreeLinkWithOEmbed requests metadata for a node if and only if
\* the node is a direct child of a root-typed tree and is a paragraph with
\* exactly one child, an anchor with a non-empty href whose entire visible text
\* equals the href; for any other node (nested deeper, an anchor with more
\* children after the href text, a tree whose top node is a paragraph) there is
\* no request and no replacement.
C14_RequestsOnlyForBareUrlParagraphs ==
  /\ \A k \in requestsOf(emb.log) :
       /\ before.type = "root"
       /\ isBareUrlParagraph(before.children[emb.log[k].i])
  /\ emb.phase = "done" =>
       IF before.type = "root"
         THEN \A i \in DOMAIN before.children :
                IF isBareUrlParagraph(before.children[i])
                  THEN \E k \in requestsOf(emb.log) : emb.log[k].i = i
                  ELSE tree.children[i] = before.children[i]
         ELSE tree = before

----------------------------------------------------------------------------
(* fixSvgPaths *)

\* the characters /\s/ matches, among those of the path data below
Whitespace == {" ", "\t", "\n"}

\* d.replace(/\s+/g, ' ') on the characters of d: every maximal run of
\* whitespace becomes one space
RECURSIVE replaceWhitespaceRuns(_)
replaceWhitespaceRuns(d) ==
  IF d = <<>> THEN <<>>
  ELSE IF Head(d) \in Whitespace
    THEN LET rest == replaceWhitespaceRuns(Tail(d))
         IN IF Len(d) > 1 /\ d[2] \in Whitespace THEN rest ELSE <<" ">> \o rest
  ELSE <<Head(d)>> \o replaceWhitespaceRuns(Tail(d))

\* run: a path gets its d rewritten and is returned as it is, children
\* included; any other parent gets its children mapped
RECURSIVE svgRun(_)
svgRun(node) ==
  IF isPathNode(node)
    THEN IF "d" \in DOMAIN PropsOf(node) /\ PropsOf(node).d # <<>>
           THEN With(node, "properties",
                     With(node.properties, "d", replaceWhitespaceRuns(node.properties.d)))
           ELSE node
  ELSE IF isParentNode(node)
    THEN With(node, "children", Map(svgRun, node.children))
  ELSE node

fixSvgPaths(t) == svgRun(t)

----------------------------------------------------------------------------
(* toHtml: the plugin list, unified running it, and what is returned.       *)
(* The tree is the one RehypeRaw hands on; opts.variant says whose toHtml    *)
(* runs: that of markdown.ts or the older one of part_000. The variant       *)
(* "toMdx" is the plugin list toMdx of markdown.ts gives to serialize, run   *)
(* the same way on the tree of the compiled source.                          *)

commonRehypePlugins ==
  <<"normalizeHeaders", "RehypeKatex", "collapseParagraphs", "RehypeSlug",
    "RehypeAutolinkHeadings", "RehypePrism", "addDataToCodeBlocks", "imageAttributes">>

excerptPlugins(o) ==
  IF o.excerpt THEN <<"getOnlyFirstPara", "addLeadToFirstParagraph">> ELSE <<>>

\* a list with the link wrapping where the older toHtml has it
toHtmlPluginsWrapEarly(o) ==
  excerptPlugins(o)
  \o <<"normalizeHeaders", "RehypeKatex", "wrapLinksInSpans", "collapseParagraphs",
       "RehypeSlug", "RehypeAutolinkHeadings", "RehypePrism", "addDataToCodeBlocks",
       "imageAttributes">>
  \o (IF o.parseOembed THEN <<"replaceFreeLinkWithOEmbed">> ELSE <<>>)

\* markdown.ts, toHtml: the plugins after RehypeRaw
toHtmlPlugins(o) ==
  excerptPlugins(o)
  \o commonRehypePlugins
  \o (IF o.parseOembed THEN <<"replaceFreeLinkWithOEmbed">> ELSE <<>>)
  \o <<"wrapLinksInSpans">>

\* part_000, toHtml: the plugins after RehypeRaw
oldToHtmlPlugins(o) ==
  excerptPlugins(o)
  \o <<"RehypeKatex", "wrapLinksInSpans", "RehypeSlug", "RehypeAutolinkHeadings",
       "RehypePrism", "addDataToCodeBlocks">>

\* a toMdx list with the link wrapping in front of the embed pass
toMdxPluginsWrapEarly(o) ==
  commonRehypePlugins
  \o <<"wrapLinksInSpans">>
  \o (IF o.parseOembed THEN <<"replaceFreeLinkWithOEmbed">> ELSE <<>>)
  \o <<"fixSvgPaths">>

\* markdown.ts, toMdx: the rehypePlugins of serialize
toMdxPlugins(o) ==
  commonRehypePlugins
  \o (IF o.parseOembed THEN <<"replaceFreeLinkWithOEmbed">> ELSE <<>>)
  \o <<"wrapLinksInSpans", "fixSvgPaths">>

pluginsOf(o) ==
  CASE o.variant = "markdown.ts" -> toHtmlPlugins(o)
    [] o.variant = "part_000" -> oldToHtmlPlugins(o)
    [] o.variant = "toMdx" -> toMdxPlugins(o)

ThirdParty == {"RehypeKatex", "RehypeSlug", "RehypeAutolinkHeadings", "RehypePrism"}

\* math rendering, heading ids, heading links and syntax highlighting act on
\* math, heading and code nodes only; on a tree that has none they return it
thirdParty(name, t) == t

\* the transformer `name` called on t
transform(name, t) ==
  CASE name = "normalizeHeaders" -> normalizeHeaders(t)
    [] name = "collapseParagraphs" -> collapseParagraphs(t)
    [] name = "addDataToCodeBlocks" -> addDataToCodeBlocks(t)
    [] name = "imageAttributes" -> imageAttributes(t)
    [] name = "getOnlyFirstPara" -> getOnlyFirstPara(t)
    [] name = "addLeadToFirstParagraph" -> addLeadToFirstParagraph(t)
    [] name = "wrapLinksInSpans" -> wrapLinksInSpans(t)
    [] name = "fixSvgPaths" -> fixSvgPaths(t)
    [] name \in ThirdParty -> thirdParty(name, t)

\* hast-util-to-string: the values of the text nodes, in document order
RECURSIVE toStringOne(_)
toStringOne(node) ==
  IF isTextNode(node) THEN <<node.value>>
  ELSE IF isParentNode(node) THEN Flatten(Map(toStringOne, node.children))
  ELSE <<>>

hastToString(node) ==
  IF isParentNode(node) THEN Flatten(Map(toStringOne, node.children))
  ELSE IF "value" \in DOMAIN node THEN <<node.value>>
  ELSE <<>>

nextPlugin == pluginsOf(opts)[Len(hist) + 1]

InitHtml ==
  /\ tree \in HtmlDocs
  /\ doc = tree
  /\ before = tree
  /\ hist = <<>>
  /\ status = "ok"
  /\ \/ opts \in [excerpt : BOOLEAN, parseOembed : BOOLEAN, variant : {"markdown.ts"}]
     \/ opts \in [excerpt : BOOLEAN, parseOembed : {FALSE}, variant : {"part_000"}]
     \/ opts \in [excerpt : {FALSE}, parseOembed : BOOLEAN, variant : {"toMdx"}]
  /\ emb = NoEmb
  /\ result = Undefined

\* unified runs the next transformer, one of the synchronous ones
HtmlTransform ==
  /\ status = "ok"
  /\ Len(hist) < Len(pluginsOf(opts))
  /\ nextPlugin # "replaceFreeLinkWithOEmbed"
  /\ RunPass(nextPlugin, transform(nextPlugin, tree))
  /\ UNCHANGED <<opts, emb, result>>

\* the replies getOEmbed gives to the lookups of one run of the pass: an
\* answer, or a rejection
Rejected == [type |-> "rejected"]

lookups(t) == {i \in DOMAIN embedItems(t) : needsLookup(embedItems(t)[i])}

\* unified runs replaceFreeLinkWithOEmbed and awaits it: the whole run of the
\* pass, with one reply for every lookup it makes
HtmlEmbed ==
  /\ status = "ok"
  /\ Len(hist) < Len(pluginsOf(opts))
  /\ nextPlugin = "replaceFreeLinkWithOEmbed"
  /\ \E reply \in [lookups(tree) -> Responses \cup {Rejected}] :
       LET out == [i \in DOMAIN embedItems(tree) |->
                     IF i \in lookups(tree)
                       THEN embedNode(embedItems(tree)[i], reply[i])
                       ELSE embedItems(tree)[i]]
           rejects == \E i \in lookups(tree) : reply[i] = Rejected
       IN RunPass(nextPlugin,
                  IF rejects THEN Thrown("rejected")
                  ELSE IF isParentNode(tree) /\ tree.type = "root"
                    THEN With(tree, "children", out)
                    ELSE out[1])
          /\ emb' = [phase |-> "replied", input |-> tree, reply |-> reply]
  /\ UNCHANGED <<opts, result>>

\* every transformer has run: the text of the tree (excerpt) or the tree,
\* which RehypeStringify (toHtml) or serialize (toMdx) writes out
HtmlReturn ==
  /\ status = "ok"
  /\ Len(hist) = Len(pluginsOf(opts))
  /\ status' = "done"
  /\ result' = IF opts.excerpt
                 THEN [kind |-> "text", text |-> hastToString(tree)]
                 ELSE [kind |-> IF opts.variant = "toMdx" THEN "mdx" ELSE "html", tree |-> tree]
  /\ UNCHANGED <<doc, tree, before, hist, opts, emb>>

NextHtml ==
  \/ HtmlTransform
  \/ HtmlEmbed
  \/ HtmlReturn

SpecHtml == InitHtml /\ [][NextHtml]_vars

----------------------------------------------------------------------------
(* Claims about toHtml, checked under SpecHtml *)

\* C8: for a document with more than one paragraph, toHtml with excerpt=false
\* keeps every paragraph in its output, and with excerpt=true returns exactly
\* the text of the first paragraph of the document in document order, also of
\* one that lies inside another element.
C8_ExcerptIsFirstParagraphText ==
  (status = "done" /\ Cardinality(paraPaths(doc)) > 1) =>
    IF opts.excerpt
      THEN result.text = hastToString(At(doc, FirstParaPath(doc)))
      ELSE \A q \in paraPaths(doc) :
             Range(hastToString(At(doc, q))) \subseteq Range(hastToString(result.tree))

\* the order C10 enumerates
claimedOrder(o) ==
  (IF o.excerpt THEN <<"getOnlyFirstPara", "addLeadToFirstParagraph">> ELSE <<>>)
  \o <<"RehypeKatex", "wrapLinksInSpans", "RehypeSlug", "RehypeAutolinkHeadings",
       "RehypePrism", "addDataToCodeBlocks">>
  \o (IF o.parseOembed THEN <<"replaceFreeLinkWithOEmbed">> ELSE <<>>)

\* the order toHtml of markdown.ts has
amendedOrder(o) ==
  (IF o.excerpt THEN <<"getOnlyFirstPara", "addLeadToFirstParagraph">> ELSE <<>>)
  \o <<"normalizeHeaders", "RehypeKatex", "collapseParagraphs", "RehypeSlug",
       "RehypeAutolinkHeadings", "RehypePrism", "addDataToCodeBlocks", "imageAttributes">>
  \o (IF o.parseOembed THEN <<"replaceFreeLinkWithOEmbed">> ELSE <<>>)
  \o <<"wrapLinksInSpans">>

wrappedPaths(t) == {q \in Range(Paths(t)) : isInnerLink(At(t, q))}

\* span.inner-link > a[href = url] and nothing else
wrapsAnchorTo(span, url) ==
  /\ isInnerLink(span)
  /\ Len(span.children) = 1
  /\ isAnchorNode(span.children[1])
  /\ hrefOf(span.children[1]) = url

\* figure.oembed whose cite holds the once-wrapped anchor to url
isCiteLinkedCard(node, url) ==
  /\ isFigure(node) /\ hasClass(node, "oembed")
  /\ LET cite == Last(node.children).children[1]
     IN /\ Len(cite.children) = 1
        /\ wrapsAnchorTo(cite.children[1], url)
        /\ cite.children[1].children[1].children = <<Text(url)>>

\* span.inner-link > a[href = url] > figure.oembed whose cite holds the text url
isWholeLinkedCard(node, url) ==
  /\ wrapsAnchorTo(node, url)
  /\ LET card == node.children[1].children
     IN /\ Len(card) = 1
        /\ isFigure(card[1]) /\ hasClass(card[1], "oembed")
        /\ Last(card[1].children).children[1].children = <<Text(url)>>

\* C16: in toHtml and toMdx of markdown.ts with parseOembed on, the embed pass
\* runs before link wrapping, so the tree it gets has no wrapped anchor; a
\* bare-URL paragraph at the root level of that tree whose lookup returned
\* metadata is a card in the final tree, and the anchor the card made at its
\* top level (the cite link, or the whole-card link) is wrapped in exactly
\* one span.
C16_EmbedBeforeLinkWrapping ==
  (opts.variant \in {"markdown.ts", "toMdx"} /\ opts.parseOembed) =>
    /\ \A i \in DOMAIN hist :
         hist[i] = "wrapLinksInSpans" =>
           \E j \in 1..(i - 1) : hist[j] = "replaceFreeLinkWithOEmbed"
    /\ (hist # <<>> /\ Last(hist) = "replaceFreeLinkWithOEmbed") => wrappedPaths(before) = {}
    /\ (status = "done" /\ emb.input.type = "root") =>
         \A i \in DOMAIN emb.input.children :
           (isBareUrlParagraph(emb.input.children[i]) /\ emb.reply[i] # Null) =>
             LET url == hrefOf(emb.input.children[i].children[1])
                 wholeCard == emb.reply[i].type = "rich" /\ emb.reply[i].html # ""
             IN IF wholeCard
                  THEN isWholeLinkedCard(tree.children[i], url)
                  ELSE isCiteLinkedCard(tree.children[i], url)

\* toMdx finished a document with two bare links: one became a card with a
\* wrapped cite link, the other a card inside a wrapped whole-card link
C16_Witness ==
  /\ opts.variant = "toMdx" /\ opts.parseOembed
  /\ status = "done"
  /\ \E i, j \in DOMAIN doc.children :
       /\ isBareUrlParagraph(doc.children[i]) /\ isBareUrlParagraph(doc.children[j])
       /\ emb.reply[i] # Null /\ emb.reply[i].type = "photo"
       /\ isCiteLinkedCard(tree.children[i], "u1")
       /\ emb.reply[j] # Null /\ emb.reply[j].type = "rich" /\ emb.reply[j].html # ""
       /\ isWholeLinkedCard(tree.children[j], "u1")

----------------------------------------------------------------------------
(* The attribute passes on their own: addDataToCodeBlocks and fixSvgPaths *)

MaxClasses == 2

\* class names, as characters: "language-", "language-js", "language-ts", "hljs"
ClassNames ==
  {languagePrefix,
   languagePrefix \o <<"j", "s">>,
   languagePrefix \o <<"t", "s">>,
   <<"h", "l", "j", "s">>}

ClassLists == UNION {SeqsN(ClassNames, n) : n \in 0..MaxClasses}

\* pre, code and div elements with an id, with and without a class list
CodeShells ==
  {Element(tag, [id |-> "x"], <<>>) : tag \in {"pre", "code", "div"}}
  \cup {Element(tag, [id |-> "x", className |-> cl], <<>>) :
          tag \in {"pre", "code", "div"}, cl \in ClassLists}

\* a document with one such element, alone or holding a second one
CodeTrees ==
  {Root(<<e>>) : e \in CodeShells}
  \cup {Root(<<With(e, "children", <<f>>)>>) : e \in CodeShells, f \in CodeShells}

MaxPathLen == 3

\* path data, as characters
PathChars == {"M", " ", "\t", "\n"}

PathData == UNION {SeqsN(PathChars, n) : n \in 0..MaxPathLen}

\* path elements with and without d, and a group
SvgShells ==
  {Element("g", [id |-> "x"], <<>>), Element("path", [id |-> "x"], <<>>)}
  \cup {Element("path", [id |-> "x", d |-> d], <<>>) : d \in PathData}

\* an svg with one such element, alone or holding a second one
SvgTrees ==
  {Root(<<Element("svg", NoProps, <<e>>)>>) : e \in SvgShells}
  \cup {Root(<<Element("svg", NoProps, <<With(e, "children", <<f>>)>>)>>) :
          e \in SvgShells, f \in SvgShells}

InitAttr ==
  /\ tree \in CodeTrees \cup SvgTrees
  /\ doc = tree
  /\ before = tree
  /\ hist = <<>>
  /\ status = "ok"
  /\ opts = NoOpts
  /\ emb = NoEmb
  /\ result = Undefined

\* the visitor changes the tree in place and the transformer returns nothing
DoAddDataToCodeBlocks ==
  /\ CanRun("addDataToCodeBlocks")
  /\ RunPass("addDataToCodeBlocks", addDataToCodeBlocks(tree))
  /\ result' = Undefined
  /\ UNCHANGED <<opts, emb>>

DoFixSvgPaths ==
  /\ CanRun("fixSvgPaths")
  /\ RunPass("fixSvgPaths", fixSvgPaths(tree))
  /\ result' = fixSvgPaths(tree)
  /\ UNCHANGED <<opts, emb>>

NextAttr ==
  \/ DoAddDataToCodeBlocks
  \/ DoFixSvgPaths

SpecAttr == InitAttr /\ [][NextAttr]_vars

\* a class entry "language-<lang>" with a non-empty <lang>
namesLanguage(c) == startsWith(c, languagePrefix) /\ Len(c) > Len(languagePrefix)

languageEntries(node) ==
  {i \in DOMAIN classNameOf(node) : namesLanguage(classNameOf(node)[i])}

firstLanguage(node) ==
  slice(classNameOf(node)[CHOOSE i \in languageEntries(node) :
                            \A j \in languageEntries(node) : i <= j],
        Len(languagePrefix))

\* what the claim says the element carries after the pass
taggedAs(node, lang) ==
  With(node, "properties",
       Spread(PropsOf(node),
              IF isPreNode(node)
                THEN [data_lang |-> Str(lang),
                      aria_label |-> "Kod w jezyku programowania " \o Str(toUpperCase(lang))]
                ELSE [data_lang |-> Str(lang)]))

\* C11: after addDataToCodeBlocks every pre or code element whose class list
\* has an entry "language-<lang>" with non-empty <lang> carries data-lang =
\* <lang> of the first such entry, a pre (never a code) also the aria-label
\* with <lang> in upper case; every other node is as it was.
C11_CodeBlocksTagged ==
  ranOnce("addDataToCodeBlocks") =>
    /\ Paths(tree) = Paths(before)
    /\ \A q \in Range(Paths(before)) :
         LET b == At(before, q)
         IN Shallow(At(tree, q)) =
              IF (isPreNode(b) \/ isCodeNode(b)) /\ languageEntries(b) # {}
                THEN Shallow(taggedAs(b, firstLanguage(b)))
                ELSE Shallow(b)

\* d has no whitespace other than single spaces
singleSpaced(d) ==
  \A i \in DOMAIN d :
    d[i] \in Whitespace => (d[i] = " " /\ (i > 1 => d[i - 1] \notin Whitespace))

\* d without its whitespace, and the number of its whitespace runs
nonWhitespace(d) == SelectSeq(d, LAMBDA c : c \notin Whitespace)

runsOf(d) ==
  Cardinality({i \in DOMAIN d : d[i] \in Whitespace /\ (i = 1 \/ d[i - 1] \notin Whitespace)})

pathsWithD(t) ==
  {q \in Range(Paths(t)) : isPathNode(At(t, q)) /\ "d" \in DOMAIN PropsOf(At(t, q))}

dOf(t, q) == At(t, q).properties.d

\* C12: after fixSvgPaths every path element's d has each maximal run of
\* whitespace replaced by exactly one space, a second application leaves d
\* as it is, and everything but d is unchanged.
C12_SvgPathsSingleSpaced ==
  ranPass("fixSvgPaths") =>
    /\ Paths(tree) = Paths(before)
    /\ \A q \in Range(Paths(before)) :
         IF q \in pathsWithD(before)
           THEN /\ singleSpaced(dOf(tree, q))
                /\ nonWhitespace(dOf(tree, q)) = nonWhitespace(dOf(before, q))
                /\ runsOf(dOf(tree, q)) = runsOf(dOf(before, q))
                /\ Shallow(With(At(tree, q), "properties", With(At(tree, q).properties, "d", <<>>)))
                     = Shallow(With(At(before, q), "properties", With(At(before, q).properties, "d", <<>>)))
                /\ Len(hist) = 2 => dOf(tree, q) = dOf(before, q)
           ELSE Shallow(At(tree, q)) = Shallow(At(before, q))

----------------------------------------------------------------------------
(* toMdx: the source text it hands to serialize. Text is a sequence of      *)
(* characters; none of the texts below has a line break, the one character   *)
(* the "." of the patterns does not match.                                   *)

Quote == "\""

styleOpen == <<"s", "t", "y", "l", "e", "=", Quote>>

classOpen == <<"c", "l", "a", "s", "s", "=", Quote>>

classNameOpen == <<"c", "l", "a", "s", "s", "N", "a", "m", "e", "=", Quote>>

\* the first position of character c in text, 0 when there is none
indexOf(text, c) ==
  LET hits == {i \in DOMAIN text : text[i] = c}
  IN IF hits = {} THEN 0 ELSE CHOOSE i \in hits : \A j \in hits : i <= j

Letters == {"a", "b", "c", "j", "s", "t"}

\* str.replace(/-([a-z])/gi, ([_, g]) => (g ? g.toUpperCase() : ''))
RECURSIVE toCamelCase(_)
toCamelCase(str) ==
  IF str = <<>> THEN <<>>
  ELSE IF Len(str) >= 2 /\ str[1] = "-" /\ str[2] \in Letters
    THEN toUpperCase(<<str[2]>>) \o toCamelCase(SubSeq(str, 3, Len(str)))
  ELSE <<Head(str)>> \o toCamelCase(Tail(str))

\* [...styles.matchAll(/(.*?)\s*:\s*(.*)/g)]: the match starts at the first
\* character, (.*?) stops before the white space in front of the first ":",
\* and (.*) takes all that follows the white space after it, so that nothing
\* is left for a second match
styleMatches(styles) ==
  LET colon == indexOf(styles, ":")
  IN IF colon = 0 THEN <<>>
     ELSE <<[property |-> TrimEnd(SubSeq(styles, 1, colon - 1)),
             value |-> TrimStart(SubSeq(styles, colon + 1, Len(styles)))]>>

\* the callback of the map: [] or [key, value]
styleEntry(match) ==
  IF Trim(match.property) = <<>> \/ Trim(match.value) = <<>> THEN <<>>
  ELSE LET trimmedValue == Trim(match.value)
       IN <<toCamelCase(Trim(match.property)),
            IF trimmedValue[Len(trimmedValue)] = ";"
              THEN SubSeq(trimmedValue, 1, Len(trimmedValue) - 1)
              ELSE trimmedValue>>

\* Object.fromEntries, as the entries of the object JSON.stringify writes: an
\* entry [] sets the key "undefined" to undefined, which is not written; a
\* key set twice is written where it was first set, with its last value
styleObject(styles) ==
  LET entries == SelectSeq(Map(styleEntry, styleMatches(Trim(styles))), LAMBDA e : e # <<>>)
      isFirst(i) == \A j \in 1..(i - 1) : entries[j][1] # entries[i][1]
      lastOf(i) == CHOOSE j \in DOMAIN entries :
                     /\ entries[j][1] = entries[i][1]
                     /\ \A k \in DOMAIN entries : entries[k][1] = entries[i][1] => k <= j
      RECURSIVE from(_)
      from(i) == IF i > Len(entries) THEN <<>>
                 ELSE (IF isFirst(i) THEN <<<<entries[i][1], entries[lastOf(i)][2]>>>> ELSE <<>>)
                      \o from(i + 1)
  IN from(1)

\* JSON.stringify of that object
RECURSIVE jsonMembers(_)
jsonMembers(object) ==
  IF object = <<>> THEN <<>>
  ELSE <<Quote>> \o object[1][1] \o <<Quote, ":", Quote>> \o object[1][2] \o <<Quote>>
       \o (IF Len(object) > 1 THEN <<",">> ELSE <<>>)
       \o jsonMembers(Tail(object))

jsonStringify(object) == <<"{">> \o jsonMembers(object) \o <<"}">>

\* `style={${jsxStyles}}`
styleAttribute(styles) ==
  <<"s", "t", "y", "l", "e", "=", "{">> \o jsonStringify(styleObject(styles)) \o <<"}">>

\* source.replace(/style="(.*?)"/g, ...): the text, and the objects written
RECURSIVE replaceStyles(_)
replaceStyles(source) ==
  IF source = <<>> THEN [text |-> <<>>, objects |-> <<>>]
  ELSE IF startsWith(source, styleOpen)
          /\ indexOf(slice(source, Len(styleOpen)), Quote) # 0
    THEN LET rest == slice(source, Len(styleOpen))
             close == indexOf(rest, Quote)
             styles == SubSeq(rest, 1, close - 1)
             tail == replaceStyles(slice(rest, close))
         IN [text |-> styleAttribute(styles) \o tail.text,
             objects |-> <<styleObject(styles)>> \o tail.objects]
  ELSE LET tail == replaceStyles(Tail(source))
       IN [text |-> <<Head(source)>> \o tail.text, objects |-> tail.objects]

\* .replace(/class="(.*?)"/g, 'className="$1"')
RECURSIVE replaceClasses(_)
replaceClasses(source) ==
  IF source = <<>> THEN <<>>
  ELSE IF startsWith(source, classOpen)
          /\ indexOf(slice(source, Len(classOpen)), Quote) # 0
    THEN LET rest == slice(source, Len(classOpen))
             close == indexOf(rest, Quote)
         IN classNameOpen \o SubSeq(rest, 1, close - 1) \o <<Quote>>
            \o replaceClasses(slice(rest, close))
  ELSE <<Head(source)>> \o replaceClasses(Tail(source))

\* the first argument of serialize
mdxSource(source) == replaceClasses(replaceStyles(source).text)

MaxDecls == 2

\* CSS declarations: a property, a colon with or without blanks, a value;
\* and one without a colon
Declarations ==
  {prop \o colon \o val :
     prop \in {<<>>, <<"a">>, <<"a", "-", "b">>},
     colon \in {<<":">>, <<" ", ":", " ">>},
     val \in {<<>>, <<"b">>, <<"c">>}}
  \cup {<<"a">>}

RECURSIVE Join(_, _)
Join(parts, sep) ==
  IF parts = <<>> THEN <<>>
  ELSE IF Len(parts) = 1 THEN parts[1]
  ELSE parts[1] \o <<sep>> \o Join(Tail(parts), sep)

\* the values of a style attribute: up to MaxDecls declarations separated by
\* ";", with or without a ";" after the last
StyleValues ==
  {<<>>} \cup
  UNION {{Join(ds, ";") \o end : ds \in SeqsN(Declarations, n), end \in {<<>>, <<";">>}} :
           n \in 1..MaxDecls}

styleText(v) == styleOpen \o v \o <<Quote>>

classText == classOpen \o <<"t">> \o <<Quote>>

\* the source texts: a style attribute alone, next to a class attribute, and
\* next to a second style attribute
Sources ==
  UNION {{styleText(v),
          styleText(v) \o <<" ">> \o classText,
          classText \o <<" ">> \o styleText(v),
          styleText(v) \o <<" ">> \o styleText(<<"c", ":", "t">>)} : v \in StyleValues}

InitMdx ==
  /\ doc \in Sources
  /\ tree = Undefined
  /\ before = Undefined
  /\ hist = <<>>
  /\ status = "ok"
  /\ opts = NoOpts
  /\ emb = NoEmb
  /\ result = Undefined

\* toMdx calls serialize: result holds the source text it passes, and the
\* objects the style callback wrote into it
ToMdxSerialize ==
  /\ status = "ok"
  /\ hist = <<>>
  /\ result' = [source |-> mdxSource(doc), styles |-> replaceStyles(doc).objects]
  /\ hist' = <<"toMdx">>
  /\ status' = "done"
  /\ UNCHANGED <<doc, tree, before, opts, emb>>

NextMdx ==
  \/ ToMdxSerialize

SpecMdx == InitMdx /\ [][NextMdx]_vars

\* the values of the style attributes of a text, in order
RECURSIVE styleValuesOf(_)
styleValuesOf(text) ==
  IF text = <<>> THEN <<>>
  ELSE IF startsWith(text, styleOpen)
    THEN LET rest == slice(text, Len(styleOpen))
         IN <<SubSeq(rest, 1, indexOf(rest, Quote) - 1)>>
            \o styleValuesOf(slice(rest, indexOf(rest, Quote)))
  ELSE styleValuesOf(Tail(text))

occurrences(text, word) ==
  Cardinality({i \in DOMAIN text : startsWith(slice(text, i - 1), word)})

\* the declarations "prop: value" of a style value with a non-empty property
\* and a non-empty value, as <<camel-cased property, trimmed value>>
declared(v) ==
  LET ds == Split(v, ";")
      entry(d) == <<toCamelCase(Trim(SubSeq(d, 1, indexOf(d, ":") - 1))),
                    Trim(SubSeq(d, indexOf(d, ":") + 1, Len(d)))>>
      kept == {i \in DOMAIN ds :
                 indexOf(ds[i], ":") # 0 /\ entry(ds[i])[1] # <<>> /\ entry(ds[i])[2] # <<>>}
  IN {entry(ds[i]) : i \in {i \in kept :
                              \A j \in kept : entry(ds[j])[1] = entry(ds[i])[1] => j <= i}}

\* C15: in the text toMdx hands on, the object written for each style
\* attribute has one entry per declaration "prop: value" of the attribute,
\* keyed by the camel-cased property with the trimmed value, no ";" in any
\* value, declarations with an empty property or value dropped; and every
\* class="..." has become className="...".
C15_StyleDeclarationsBecomeEntries ==
  (status = "done" /\ hist = <<"toMdx">>) =>
    /\ Len(result.styles) = Len(styleValuesOf(doc))
    /\ \A n \in DOMAIN result.styles :
         /\ Range(result.styles[n]) = declared(styleValuesOf(doc)[n])
         /\ \A e \in Range(result.styles[n]) : indexOf(e[2], ";") = 0
    /\ occurrences(result.source, classOpen) = 0
    /\ occurrences(result.source, classNameOpen) = occurrences(doc, classOpen)

====
